---------------------------- MODULE Spec2Model ----------------------------
(***************************************************************************)
(* Model of the product / inventory resolution service of smartaisle       *)
(* (src/services/productService.ts): the axios-retry policy installed at   *)
(* module load, the two store finders, the two inventory look-ups, the two *)
(* product scrapers and ProductService.getProductInfo, which drives them;  *)
(* of the route screen (src/unnamed/part_002), which turns the persisted   *)
(* shopping list into per-store routes; of the barcode scanner             *)
(* (src/unnamed/part_000); and of the two screens that write the persisted *)
(* shopping list (src/unnamed/part_002, src/app/(tabs)/shopping.tsx).      *)
(*                                                                         *)
(* Conventions                                                             *)
(*   - a JavaScript string that the code parses is a sequence of           *)
(*     one-character strings; identifiers that are only copied are TLA+    *)
(*     strings;                                                            *)
(*   - an optional value (undefined / null, or a value v) is the empty     *)
(*     sequence or the one-element sequence <<v>>;                         *)
(*   - a JavaScript number is a record [nan, val] with val in hundredths   *)
(*     (0.5 miles is 50, $4.99 is 499);                                    *)
(*   - `lastUpdated: new Date()` is a wall-clock reading and is left out   *)
(*     of the StoreInventory records.                                      *)
(***************************************************************************)
EXTENDS Integers, Sequences, FiniteSets, TLC

VARIABLES
    \* ---- one axios.get under the axios-retry interceptor ----
    rpc,            \* "idle" | "inflight" | "resolved" | "rejected"
    retryCount,     \* axios-retry's currentState.retryCount
    attempts,       \* HTTP attempts sent so far, in order, with their outcome
    \* ---- one call of ProductService.getProductInfo ----
    pc,             \* position in getProductInfo
    barcode,        \* argument
    zipCode,        \* argument, optional
    productInfo,    \* local `productInfo`, optional
    walmartStores,  \* result of findWalmartStores
    targetStores,   \* result of findTargetStores
    allStores,      \* merged, sorted candidate list
    inventory,      \* local `inventory` (primary look-up), optional
    alternativeStores, \* local `alternativeStores` of the fallback loop
    altPos,         \* position in the fallback loop's slice
    inFlight,       \* the adapter calls in flight
    result,         \* <<>> until the call returns, then <<returned value>>
    requests,       \* every adapter call issued, in order
    observations,   \* what each inventory look-up returned, in order
    console,        \* console.error messages, in order
    identity,       \* the first non-null ProductInfo a scraper returned
    \* ---- one mount of RouteScreen (src/unnamed/part_002) ----
    routePc,        \* "idle" | "loading" | "loaded" | "failed"
    routeItems,     \* <<>> or <<the list handed to organizeByStore>>
    storeRoutes,    \* the component state `storeRoutes`
    \* ---- one inventory look-up of an adapter, on its own ----
    adapterCall,    \* <<>> or <<[op, storeId, response]>>: the call made
    adapterResult,  \* <<>> or <<what the call settled with>>
    \* ---- the BarcodeScanner component (src/unnamed/part_000) ----
    scanned,        \* React state `scanned`
    isLoading,      \* React state `isLoading`
    rendered,       \* the state values of the last committed render: those
                    \* the mounted handleBarCodeScanned closes over
    scans,          \* the accepted runs of handleBarCodeScanned, in order
    onScannedCalls, \* the barcodes passed to onScanned, in order
    scanBlocked,    \* 'Scan blocked - already scanning' was logged
    \* ---- the persisted 'shoppingList' and the two screens that write it ----
    storage,        \* AsyncStorage 'shoppingList': <<>> (null) or <<list>>
    adds,           \* the runs of the pantry screen's handleAddToList
    shopPc,         \* shopping screen: "unmounted" | "loading" | "ready"
    shopLoaded,     \* what its getItem read, until loadShoppingList resumes
    shoppingList,   \* the shopping screen's state `shoppingList`
    pendingSets,    \* lists awaiting setShoppingList, in order of their saves
    added,          \* per id, how often handleAddToList persisted the item
    edited,         \* ids for which updateQuantity / removeFromList ran
    presses         \* the number of presses on the shopping screen's buttons

retryVars == <<rpc, retryCount, attempts>>
resolveVars == <<pc, barcode, zipCode, productInfo, walmartStores,
                 targetStores, allStores, inventory, alternativeStores, altPos,
                 inFlight, result, requests, observations, console, identity>>
routeVars == <<routePc, routeItems, storeRoutes>>
lookupVars == <<adapterCall, adapterResult>>
scannerVars == <<scanned, isLoading, rendered, scans, onScannedCalls, scanBlocked>>
listVars == <<storage, adds, shopPc, shopLoaded, shoppingList, pendingSets,
              added, edited, presses>>
vars == <<rpc, retryCount, attempts, pc, barcode, zipCode, productInfo,
          walmartStores, targetStores, allStores, inventory,
          alternativeStores, altPos, inFlight, result, requests, observations,
          console, identity, routePc, routeItems, storeRoutes,
          adapterCall, adapterResult,
          scanned, isLoading, rendered, scans, onScannedCalls, scanBlocked,
          storage, adds, shopPc, shopLoaded, shoppingList, pendingSets,
          added, edited, presses>>

-----------------------------------------------------------------------------
(* Text and number helpers: what the JavaScript built-ins used by the code do *)

Digits == {"0", "1", "2", "3", "4", "5", "6", "7", "8", "9"}

DigitVal(c) ==
    CASE c = "0" -> 0 [] c = "1" -> 1 [] c = "2" -> 2 [] c = "3" -> 3
      [] c = "4" -> 4 [] c = "5" -> 5 [] c = "6" -> 6 [] c = "7" -> 7
      [] c = "8" -> 8 [] c = "9" -> 9

SetMin(S) == CHOOSE x \in S : \A y \in S : x <= y

Drop(s, n) == SubSeq(s, n + 1, Len(s))

\* String.prototype.trim
TrimStart(s) ==
    LET ink == {i \in 1..Len(s) : s[i] # " "}
    IN  IF ink = {} THEN <<>> ELSE Drop(s, SetMin(ink) - 1)

TrimEnd(s) ==
    LET ink == {i \in 1..Len(s) : s[i] # " "}
    IN  IF ink = {} THEN <<>>
        ELSE SubSeq(s, 1, CHOOSE i \in ink : \A j \in ink : j <= i)

Trim(s) == TrimEnd(TrimStart(s))

\* the positions at which pat occurs in s
Occurrences(s, pat) ==
    {i \in 1..(Len(s) - Len(pat) + 1) : SubSeq(s, i, i + Len(pat) - 1) = pat}

\* String.prototype.includes
Includes(s, pat) == pat = <<>> \/ Occurrences(s, pat) # {}

\* String.prototype.replace with a string pattern: the first occurrence only
ReplaceFirst(s, pat, rep) ==
    IF Occurrences(s, pat) = {} THEN s
    ELSE LET i == SetMin(Occurrences(s, pat))
         IN  SubSeq(s, 1, i - 1) \o rep \o Drop(s, i + Len(pat) - 1)

LowerChar(c) ==
    CASE c = "I" -> "i" [] c = "S" -> "s" [] c = "O" -> "o" [] c = "N" -> "n"
      [] c = "T" -> "t" [] c = "C" -> "c" [] c = "K" -> "k" [] c = "U" -> "u"
      [] c = "F" -> "f" [] OTHER -> c

\* String.prototype.toLowerCase
ToLowerCase(s) == [i \in 1..Len(s) |-> LowerChar(s[i])]

NaN == [nan |-> TRUE, val |-> 0]
Num(n) == [nan |-> FALSE, val |-> n]

\* the number of leading decimal digits of s
LeadingDigits(s) ==
    LET bad == {i \in 1..Len(s) : s[i] \notin Digits}
    IN  IF bad = {} THEN Len(s) ELSE SetMin(bad) - 1

RECURSIVE DigitsValue(_)
DigitsValue(s) ==
    IF s = <<>> THEN 0
    ELSE 10 * DigitsValue(SubSeq(s, 1, Len(s) - 1)) + DigitVal(s[Len(s)])

\* the fraction digits d1 d2 ... as hundredths (digits past the second are cut)
FractionValue(s) ==
    (IF Len(s) >= 1 THEN 10 * DigitVal(s[1]) ELSE 0)
    + (IF Len(s) >= 2 THEN DigitVal(s[2]) ELSE 0)

\* parseFloat: leading white space, an optional sign, the longest prefix
\* digits [. digits]; NaN when that prefix holds no digit
ParseFloat(s) ==
    LET t    == TrimStart(s)
        neg  == t # <<>> /\ t[1] = "-"
        u    == IF t # <<>> /\ t[1] \in {"-", "+"} THEN Drop(t, 1) ELSE t
        ni   == LeadingDigits(u)
        v    == Drop(u, ni)
        dot  == v # <<>> /\ v[1] = "."
        w    == IF dot THEN Drop(v, 1) ELSE <<>>
        nf   == LeadingDigits(w)
        mag  == 100 * DigitsValue(SubSeq(u, 1, ni)) + FractionValue(SubSeq(w, 1, nf))
    IN  IF ni + nf = 0 THEN NaN
        ELSE Num(IF neg THEN 0 - mag ELSE mag)

\* JavaScript truthiness of a number: NaN and 0 are falsy
Truthy(x) == ~x.nan /\ x.val # 0

-----------------------------------------------------------------------------
(* axios-retry, as configured at src/services/productService.ts:6-12       *)

\* retries: 3
retries == 3

\* what one HTTP attempt can end in: a 2xx response, no response at all
\* (connection failure, e.g. ECONNRESET), a client timeout (ECONNABORTED), or
\* a response with an error status
Outcomes ==
    { [kind |-> "ok",      status |-> 200],
      [kind |-> "network", status |-> 0],
      [kind |-> "timeout", status |-> 0],
      [kind |-> "http",    status |-> 400],
      [kind |-> "http",    status |-> 404],
      [kind |-> "http",    status |-> 429],
      [kind |-> "http",    status |-> 500],
      [kind |-> "http",    status |-> 503] }

\* axios-retry isNetworkError: no response, an error code, not ECONNABORTED
isNetworkError(error) == error.kind = "network"

\* axios-retry isRetryableError: not ECONNABORTED, and no response or a 5xx
isRetryableError(error) ==
    /\ error.kind # "timeout"
    /\ error.kind = "network" \/ (error.status >= 500 /\ error.status <= 599)

\* axios-retry isIdempotentRequestError: every request of the service is a GET
isIdempotentRequestError(error) == isRetryableError(error)

\* variant: no error counts as a network or idempotent-request error
isNetworkOrIdempotentRequestError_Never(error) == FALSE

isNetworkOrIdempotentRequestError(error) ==
    isNetworkError(error) \/ isIdempotentRequestError(error)

\* variant: every error is retried
retryCondition_AnyError(error) == TRUE

\* retryCondition of the configuration (line 9-11)
retryCondition(error) ==
    isNetworkOrIdempotentRequestError(error)
        \/ (error.kind = "http" /\ error.status = 429)

\* variant: the budget is compared with <=
shouldRetry_OffByOne(count, error) == count <= retries /\ retryCondition(error)

\* axios-retry shouldRetry: the retry budget is checked against the number of
\* retries made so far
shouldRetry(count, error) == count < retries /\ retryCondition(error)


RetryInit ==
    /\ rpc = "idle"
    /\ retryCount = 0
    /\ attempts = <<>>

\* axios.get(url, ...): the first attempt is sent
AxiosGet ==
    /\ rpc = "idle"
    /\ rpc' = "inflight"
    /\ UNCHANGED <<retryCount, attempts>>

\* an attempt ends in a 2xx response: the promise resolves
AttemptSucceeds ==
    /\ rpc = "inflight"
    /\ \E o \in Outcomes :
          /\ o.kind = "ok"
          /\ attempts' = Append(attempts, o)
    /\ rpc' = "resolved"
    /\ UNCHANGED retryCount

\* an attempt fails and the interceptor sends the request again (after
\* exponentialDelay, which only postpones the next attempt)
AttemptRetried ==
    /\ rpc = "inflight"
    /\ \E o \in Outcomes :
          /\ o.kind # "ok"
          /\ shouldRetry(retryCount, o)
          /\ attempts' = Append(attempts, o)
    /\ retryCount' = retryCount + 1
    /\ UNCHANGED rpc

\* an attempt fails and the interceptor passes the error on: the promise rejects
AttemptRejected ==
    /\ rpc = "inflight"
    /\ \E o \in Outcomes :
          /\ o.kind # "ok"
          /\ ~shouldRetry(retryCount, o)
          /\ attempts' = Append(attempts, o)
    /\ rpc' = "rejected"
    /\ UNCHANGED retryCount

-----------------------------------------------------------------------------
(* The retailer pages the adapters read, and the adapters                   *)

\* bounds of the model: the longest store list a finder page holds
MaxWalmartStores == 3
MaxTargetStores == 2

SeqUpTo(S, n) == UNION {[1..k -> S] : k \in 0..n}

Barcodes == {"012345"}

\* zipCode?: string -- absent, empty, or a postal code
ZipCodes == {<<>>, <<"">>, <<"90210">>}

\* an axios.get that rejects (after the retries), or resolves with a page
Failures == {"NetworkError", "HttpError"}

Failed(e) == [ok |-> FALSE, error |-> e, data |-> <<>>]
Page(d) == [ok |-> TRUE, error |-> "", data |-> d]

\* how an async adapter call settles: it resolves with a value, having logged
\* the console.error messages of `log`, or it rejects
Settled(v, log) == [rejected |-> FALSE, value |-> v, log |-> log]
Rejected == [rejected |-> TRUE, value |-> <<>>, log |-> <<>>]

\* .store-list-item nodes: the data-store-id attribute (optional) and the
\* text of .store-name, .store-address and .distance ('' when the node is missing)
WalmartStoreNodes ==
    { [id |-> <<"101">>, name |-> <<"W", "1">>, address |-> <<"1", " ", "A">>,
       distance |-> <<"0", ".", "5", " ", "m", "i", "l", "e", "s">>],
      [id |-> <<>>, name |-> <<>>, address |-> <<>>,
       distance |-> <<" ", "0", " ", "m", "i", "l", "e", "s">>],
      [id |-> <<"103">>, name |-> <<"W", "3", " ">>, address |-> <<"3", " ", "C">>,
       distance |-> <<"3", ".", "0", " ", "m", "i", "l", "e", "s">>] }

TargetStoreNodes ==
    { [id |-> <<"101">>, name |-> <<"T", "1">>, address |-> <<"1", " ", "B">>,
       distance |-> <<"1", ".", "2", " ", "m", "i", "l", "e", "s">>],
      [id |-> <<>>, name |-> <<" ", "T", "2">>, address |-> <<>>,
       distance |-> <<>>] }

WalmartFinderResponses ==
    {Failed(e) : e \in Failures}
        \cup {Page(p) : p \in SeqUpTo(WalmartStoreNodes, MaxWalmartStores)}

TargetFinderResponses ==
    {Failed(e) : e \in Failures}
        \cup {Page(p) : p \in SeqUpTo(TargetStoreNodes, MaxTargetStores)}

\* one .store-list-item mapped to a StoreLocation (lines 56-68 and 90-102)
StoreLocation(node, chain) ==
    [ storeId  |-> IF node.id = <<>> \/ node.id[1] = "" THEN "" ELSE node.id[1],
      name     |-> Trim(node.name),
      address  |-> Trim(node.address),
      distance |-> ParseFloat(Trim(ReplaceFirst(Trim(node.distance),
                                  <<"m", "i", "l", "e", "s">>, <<>>))),
      chain    |-> chain ]

StoresOf(page, chain) == [i \in 1..Len(page) |-> StoreLocation(page[i], chain)]

\* variant: findWalmartStores without its try / catch
findWalmartStores_NoCatch(response) ==
    IF ~response.ok THEN Rejected
    ELSE Settled(StoresOf(response.data, "walmart"), <<>>)

\* findWalmartStores: the stores of the page; [] and a logged error when the
\* request or the parse throws (lines 44-76)
findWalmartStores(response) ==
    IF ~response.ok THEN Settled(<<>>, <<"Error finding Walmart stores:">>)
    ELSE Settled(StoresOf(response.data, "walmart"), <<>>)

\* findTargetStores (lines 78-110)
findTargetStores(response) ==
    IF ~response.ok THEN Settled(<<>>, <<"Error finding Target stores:">>)
    ELSE Settled(StoresOf(response.data, "target"), <<>>)

\* product page, inventory part: the text of .fulfillment-status, of the price
\* node (.price-main at Walmart, .price at Target) and of .aisle-location
InventoryPages ==
    { [status |-> <<"O", "u", "t", " ", "o", "f", " ", "s", "t", "o", "c", "k">>,
       price |-> <<>>, aisle |-> <<>>],
      [status |-> <<"I", "n", " ", "s", "t", "o", "c", "k">>,
       price |-> <<"$", "4", ".", "9", "9">>, aisle |-> <<"A", "1", "2">>],
      [status |-> <<"I", "N", " ", "S", "T", "O", "C", "K">>,
       price |-> <<" ", "$", "5", ".", "4", "9">>, aisle |-> <<>>] }

InventoryResponses ==
    {Failed(e) : e \in Failures} \cup {Page(p) : p \in InventoryPages}

AskStoreAssociate ==
    <<"A", "s", "k", " ", "s", "t", "o", "r", "e", " ",
      "a", "s", "s", "o", "c", "i", "a", "t", "e">>

\* the StoreInventory built from a product page (lines 121-134 and 150-163)
StoreInventory(storeId, chain, page) ==
    LET inStockText == ToLowerCase(page.status)
        priceText   == Trim(page.price)
        aisleText   == Trim(page.aisle)
        price       == ParseFloat(ReplaceFirst(priceText, <<"$">>, <<>>))
    IN  [ storeId |-> storeId,
          chain   |-> chain,
          inStock |-> Includes(inStockText, <<"i", "n", " ", "s", "t", "o", "c", "k">>),
          aisle   |-> IF aisleText # <<>> THEN aisleText ELSE AskStoreAssociate,
          price   |-> IF Truthy(price) THEN <<price.val>> ELSE <<>> ]

\* getWalmartInventory: null and a logged error when the request or the parse
\* throws (lines 112-139)
getWalmartInventory(storeId, response) ==
    IF ~response.ok THEN Settled(<<>>, <<"Error getting Walmart inventory:">>)
    ELSE Settled(<<StoreInventory(storeId, "walmart", response.data)>>, <<>>)

\* getTargetInventory (lines 141-168)
getTargetInventory(storeId, response) ==
    IF ~response.ok THEN Settled(<<>>, <<"Error getting Target inventory:">>)
    ELSE Settled(<<StoreInventory(storeId, "target", response.data)>>, <<>>)

\* product page, identity part: the text of the title node, the src attribute
\* of the image (optional) and the text of the brand node
ProductPages ==
    { [title |-> <<>>, src |-> <<>>, brand |-> <<>>],
      [title |-> <<" ">>, src |-> <<"p.png">>, brand |-> <<>>],
      [title |-> <<" ", "W", "i", "d", "g", "e", "t", " ">>, src |-> <<"w.png">>,
       brand |-> <<"A", "c", "m", "e">>] }

ProductResponses ==
    {Failed(e) : e \in Failures} \cup {Page(p) : p \in ProductPages}

UnknownAisle == <<"u", "n", "k", "n", "o", "w", "n">>

\* the ProductInfo a scraper returns (lines 180-200 and 217-237)
ScrapedProduct(code, chain, page) ==
    LET name == Trim(page.title)
    IN  IF name = <<>> THEN <<>>
        ELSE << [ name      |-> name,
                  image     |-> IF page.src = <<>> THEN "" ELSE page.src[1],
                  barcode   |-> code,
                  brand     |-> Trim(page.brand),
                  inventory |-> [ storeId |-> "unknown", chain |-> chain,
                                  inStock |-> FALSE, aisle |-> UnknownAisle,
                                  price |-> <<>> ],
                  alternativeStores |-> <<>> ] >>

\* scrapeWalmartProduct (lines 170-205)
scrapeWalmartProduct(code, response) ==
    IF ~response.ok THEN Settled(<<>>, <<"Error scraping Walmart product:">>)
    ELSE Settled(ScrapedProduct(code, "walmart", response.data), <<>>)

\* variant: the Target scraper labels its placeholder inventory 'walmart'
scrapeTargetProduct_WalmartChain(code, response) ==
    IF ~response.ok THEN Settled(<<>>, <<"Error scraping Target product:">>)
    ELSE Settled(ScrapedProduct(code, "walmart", response.data), <<>>)

\* scrapeTargetProduct (lines 207-242)
scrapeTargetProduct(code, response) ==
    IF ~response.ok THEN Settled(<<>>, <<"Error scraping Target product:">>)
    ELSE Settled(ScrapedProduct(code, "target", response.data), <<>>)

-----------------------------------------------------------------------------
(* ProductService.getProductInfo (lines 244-304)                            *)

\* the sort key `distance || Infinity` (line 265): NaN and 0 are falsy
SortKey(store) ==
    IF Truthy(store.distance) THEN [inf |-> FALSE, val |-> store.distance.val]
    ELSE [inf |-> TRUE, val |-> 0]

\* the comparator (a.distance || Infinity) - (b.distance || Infinity), as
\* Array.prototype.sort reads it: negative, zero or positive.  Infinity minus
\* Infinity is NaN, which sort takes as 0.
compareStores(a, b) ==
    LET ka == SortKey(a)
        kb == SortKey(b)
    IN  CASE ka.inf /\ kb.inf -> 0
          [] ka.inf /\ ~kb.inf -> 1
          [] ~ka.inf /\ kb.inf -> 0 - 1
          [] OTHER -> ka.val - kb.val

\* x put into a sorted list behind every element that does not compare greater
InsertStore(sorted, x) ==
    LET greater == {i \in 1..Len(sorted) : compareStores(sorted[i], x) > 0}
        k == IF greater = {} THEN Len(sorted) + 1 ELSE SetMin(greater)
    IN  SubSeq(sorted, 1, k - 1) \o <<x>> \o Drop(sorted, k - 1)

\* Array.prototype.sort with that comparator: a stable sort
RECURSIVE sortStores(_)
sortStores(stores) ==
    IF stores = <<>> THEN <<>>
    ELSE InsertStore(sortStores(SubSeq(stores, 1, Len(stores) - 1)), stores[Len(stores)])

\* variant: the Target stores are spread first
mergeStores_TargetFirst(ws, ts) == sortStores(ts \o ws)

\* [...walmartStores, ...targetStores].sort(...) (lines 264-265)
mergeStores(ws, ts) == sortStores(ws \o ts)

\* variant: the location test is dropped
hasLocation_Always(z) == TRUE

\* `if (zipCode)` (line 256): undefined and '' are falsy
hasLocation(z) == z # <<>> /\ z[1] # ""

\* variant: the null test is dropped
noIdentity_Never(info) == FALSE

\* `if (!productInfo)` (lines 248 and 252)
noIdentity(info) == info = <<>>

\* variant: the fallback loop runs whatever the primary look-up returned
outOfStock_Always(inv) == TRUE

\* `!inventory?.inStock` (line 279)
outOfStock(inv) == inv = <<>> \/ ~inv[1].inStock

\* allStores.slice(1, 4) (line 282), 0-based start and end
sliceStart == 1
sliceEnd == 4

\* variant: slice(1) in place of slice(1, 4)
alternativeCandidates_NoCap(n) == [k \in 1..(IF n > 1 THEN n - 1 ELSE 0) |-> 1 + k]

\* the positions (1-based) of allStores that slice(1, 4) holds, in order
alternativeCandidates(n) ==
    LET last == IF n < sliceEnd THEN n ELSE sliceEnd
    IN  [k \in 1..(IF last > sliceStart THEN last - sliceStart ELSE 0) |-> sliceStart + k]

\* variant: an in-stock result is put in front of the earlier ones
pushIfInStock_Prepend(alts, inv) ==
    IF inv # <<>> /\ inv[1].inStock THEN <<inv[1]>> \o alts ELSE alts

\* `if (storeInventory?.inStock) alternativeStores.push(storeInventory)` (287-289)
pushIfInStock(alts, inv) ==
    IF inv # <<>> /\ inv[1].inStock THEN Append(alts, inv[1]) ELSE alts

\* `if (alternativeStores.length > 0) productInfo.alternativeStores = ...` (292-294)
attachAlternatives(info, alts) ==
    IF Len(alts) > 0 THEN <<[info[1] EXCEPT !.alternativeStores = <<alts>>]>> ELSE info

\* `if (inventory) productInfo.inventory = inventory` (lines 274-276)
setInventory(info, inv) ==
    IF inv # <<>> THEN <<[info[1] EXCEPT !.inventory = inv[1]]>> ELSE info

\* the chain dispatch of lines 270-272 and 283-285
getInventory(store, response) ==
    IF store.chain = "walmart" THEN getWalmartInventory(store.storeId, response)
    ELSE getTargetInventory(store.storeId, response)

inventoryCall(store) ==
    IF store.chain = "walmart" THEN "getWalmartInventory" ELSE "getTargetInventory"

\* an adapter call: its name and, for an inventory look-up, the position in
\* allStores of the store it is about (0 otherwise)
Req(op, pos) == [op |-> op, pos |-> pos]

FinderOps == {"findWalmartStores", "findTargetStores"}
InventoryOps == {"getWalmartInventory", "getTargetInventory"}

ResolveInit ==
    /\ pc = "idle"
    /\ barcode = ""
    /\ zipCode = <<>>
    /\ productInfo = <<>>
    /\ walmartStores = <<>>
    /\ targetStores = <<>>
    /\ allStores = <<>>
    /\ inventory = <<>>
    /\ alternativeStores = <<>>
    /\ altPos = 0
    /\ inFlight = {}
    /\ result = <<>>
    /\ requests = <<>>
    /\ observations = <<>>
    /\ console = <<>>
    /\ identity = <<>>

\* `return v`
Return(v) ==
    /\ pc' = "done"
    /\ result' = <<v>>

\* the catch of getProductInfo (lines 300-303): an adapter call rejected
Caught(log) ==
    /\ console' = Append(log, "Error getting product info:")
    /\ Return(<<>>)

\* the identity is known (line 256): with a location both finders are called
\* (Promise.all, lines 258-261), without one the identity is returned
Located(info) ==
    IF hasLocation(zipCode)
    THEN /\ pc' = "findStores"
         /\ inFlight' = FinderOps
         /\ requests' = requests \o <<Req("findWalmartStores", 0),
                                      Req("findTargetStores", 0)>>
         /\ result' = result
    ELSE /\ Return(info)
         /\ inFlight' = {}
         /\ requests' = requests

\* getProductInfo(barcode, zipCode) is called: scrapeWalmartProduct sends its request
GetProductInfo ==
    /\ pc = "idle"
    /\ \E b \in Barcodes, z \in ZipCodes :
          /\ barcode' = b
          /\ zipCode' = z
    /\ pc' = "scrapeWalmart"
    /\ inFlight' = {"scrapeWalmartProduct"}
    /\ requests' = Append(requests, Req("scrapeWalmartProduct", 0))
    /\ UNCHANGED <<productInfo, walmartStores, targetStores, allStores, inventory,
                   alternativeStores, altPos, result, observations, console, identity>>
    /\ UNCHANGED retryVars

\* scrapeWalmartProduct completes (lines 247-256)
ScrapeWalmartDone ==
    /\ pc = "scrapeWalmart"
    /\ \E response \in ProductResponses :
          LET r == scrapeWalmartProduct(barcode, response)
          IN  IF r.rejected
              THEN /\ Caught(console)
                   /\ inFlight' = {}
                   /\ UNCHANGED <<productInfo, identity, requests>>
              ELSE /\ productInfo' = r.value
                   /\ console' = console \o r.log
                   /\ IF noIdentity(r.value)
                      THEN /\ pc' = "scrapeTarget"
                           /\ inFlight' = {"scrapeTargetProduct"}
                           /\ requests' = Append(requests, Req("scrapeTargetProduct", 0))
                           /\ UNCHANGED <<result, identity>>
                      ELSE /\ identity' = r.value
                           /\ Located(r.value)
    /\ UNCHANGED <<barcode, zipCode, walmartStores, targetStores, allStores, inventory,
                   alternativeStores, altPos, observations>>
    /\ UNCHANGED retryVars

\* scrapeTargetProduct completes (lines 249-256)
ScrapeTargetDone ==
    /\ pc = "scrapeTarget"
    /\ \E response \in ProductResponses :
          LET r == scrapeTargetProduct(barcode, response)
          IN  IF r.rejected
              THEN /\ Caught(console)
                   /\ inFlight' = {}
                   /\ UNCHANGED <<productInfo, identity, requests>>
              ELSE /\ productInfo' = r.value
                   /\ console' = console \o r.log
                   /\ IF noIdentity(r.value)
                      THEN /\ Return(<<>>)
                           /\ inFlight' = {}
                           /\ UNCHANGED <<requests, identity>>
                      ELSE /\ identity' = r.value
                           /\ Located(r.value)
    /\ UNCHANGED <<barcode, zipCode, walmartStores, targetStores, allStores, inventory,
                   alternativeStores, altPos, observations>>
    /\ UNCHANGED retryVars

\* findWalmartStores completes (lines 44-76); Promise.all stays pending until
\* findTargetStores has completed too, and rejects as soon as one of them does
FindWalmartStoresDone ==
    /\ pc = "findStores"
    /\ "findWalmartStores" \in inFlight
    /\ \E response \in WalmartFinderResponses :
          LET r == findWalmartStores(response)
          IN  IF r.rejected
              THEN /\ Caught(console)
                   /\ UNCHANGED walmartStores
              ELSE /\ walmartStores' = r.value
                   /\ console' = console \o r.log
                   /\ UNCHANGED <<pc, result>>
    /\ inFlight' = inFlight \ {"findWalmartStores"}
    /\ UNCHANGED <<barcode, zipCode, productInfo, targetStores, allStores, inventory,
                   alternativeStores, altPos, requests, observations, identity>>
    /\ UNCHANGED retryVars

\* findTargetStores completes (lines 78-110)
FindTargetStoresDone ==
    /\ pc = "findStores"
    /\ "findTargetStores" \in inFlight
    /\ \E response \in TargetFinderResponses :
          LET r == findTargetStores(response)
          IN  IF r.rejected
              THEN /\ Caught(console)
                   /\ UNCHANGED targetStores
              ELSE /\ targetStores' = r.value
                   /\ console' = console \o r.log
                   /\ UNCHANGED <<pc, result>>
    /\ inFlight' = inFlight \ {"findTargetStores"}
    /\ UNCHANGED <<barcode, zipCode, productInfo, walmartStores, allStores, inventory,
                   alternativeStores, altPos, requests, observations, identity>>
    /\ UNCHANGED retryVars

\* Promise.all resolves: the lists are merged and sorted, and the nearest
\* store's inventory is requested (lines 263-272)
StoresFound ==
    /\ pc = "findStores"
    /\ inFlight = {}
    /\ LET all == mergeStores(walmartStores, targetStores)
       IN  /\ allStores' = all
           /\ IF Len(all) > 0
              THEN /\ pc' = "primary"
                   /\ inFlight' = {inventoryCall(all[1])}
                   /\ requests' = Append(requests, Req(inventoryCall(all[1]), 1))
                   /\ result' = result
              ELSE /\ Return(productInfo)
                   /\ inFlight' = {}
                   /\ requests' = requests
    /\ UNCHANGED <<barcode, zipCode, productInfo, walmartStores, targetStores, inventory,
                   alternativeStores, altPos, observations, console, identity>>
    /\ UNCHANGED retryVars

\* the fallback loop asks for the inventory of the slice's k-th store, or,
\* past the slice's end, the function returns (lines 282-299)
Fallback(info, alts, k) ==
    LET cands == alternativeCandidates(Len(allStores))
    IN  IF k <= Len(cands)
        THEN /\ pc' = "alternatives"
             /\ altPos' = k
             /\ productInfo' = info
             /\ inFlight' = {inventoryCall(allStores[cands[k]])}
             /\ requests' = Append(requests,
                                   Req(inventoryCall(allStores[cands[k]]), cands[k]))
             /\ result' = result
        ELSE /\ altPos' = k
             /\ productInfo' = attachAlternatives(info, alts)
             /\ Return(attachAlternatives(info, alts))
             /\ inFlight' = {}
             /\ requests' = requests

\* the nearest store's inventory look-up completes (lines 270-282)
PrimaryDone ==
    /\ pc = "primary"
    /\ \E response \in InventoryResponses :
          LET r == getInventory(allStores[1], response)
          IN  IF r.rejected
              THEN /\ Caught(console)
                   /\ inFlight' = {}
                   /\ UNCHANGED <<productInfo, inventory, observations, requests, altPos>>
              ELSE /\ inventory' = r.value
                   /\ observations' = Append(observations, r.value)
                   /\ console' = console \o r.log
                   /\ IF outOfStock(r.value)
                      THEN Fallback(setInventory(productInfo, r.value), <<>>, 1)
                      ELSE /\ productInfo' = setInventory(productInfo, r.value)
                           /\ Return(setInventory(productInfo, r.value))
                           /\ inFlight' = {}
                           /\ UNCHANGED <<requests, altPos>>
    /\ alternativeStores' = <<>>
    /\ UNCHANGED <<barcode, zipCode, walmartStores, targetStores, allStores, identity>>
    /\ UNCHANGED retryVars

\* an inventory look-up of the fallback loop completes (lines 283-290)
AlternativeDone ==
    /\ pc = "alternatives"
    /\ \E response \in InventoryResponses :
          LET cands == alternativeCandidates(Len(allStores))
              r     == getInventory(allStores[cands[altPos]], response)
              alts  == pushIfInStock(alternativeStores, r.value)
          IN  IF r.rejected
              THEN /\ Caught(console)
                   /\ inFlight' = {}
                   /\ UNCHANGED <<productInfo, alternativeStores, observations,
                                  requests, altPos>>
              ELSE /\ alternativeStores' = alts
                   /\ observations' = Append(observations, r.value)
                   /\ console' = console \o r.log
                   /\ Fallback(productInfo, alts, altPos + 1)
    /\ UNCHANGED <<barcode, zipCode, walmartStores, targetStores, allStores, inventory,
                   identity>>
    /\ UNCHANGED retryVars

-----------------------------------------------------------------------------
(* The route screen, src/unnamed/part_002:34-125                            *)
(*                                                                         *)
(* A PantryItem is a record [id, quantity, prices, aisle]: `prices` is the *)
(* list of price observations, of which only `store` is read; `aisle` is   *)
(* optional (null, or a string that may be empty).  The other fields       *)
(* (barcode, name, image, dateAdded) are copied and never read.            *)

\* the longest list of items on the persisted shopping list
MaxItems == 3

PriceAt(store) == [store |-> store]

\* what a persisted item can look like: aisle labels that are canonical
\* integers, labels with leading zeros or a prefix, labels without digits,
\* the empty string and null; quantities below, at and above zero; no, one
\* and two price observations
ItemPool ==
    { [quantity |-> 1, prices |-> <<PriceAt("X")>>,
       aisle |-> << <<"1", "2">> >>],
      [quantity |-> 0, prices |-> <<PriceAt("X")>>,
       aisle |-> << <<"3">> >>],
      [quantity |-> 2, prices |-> <<PriceAt("X")>>,
       aisle |-> << <<"7">> >>],
      [quantity |-> 1, prices |-> <<PriceAt("X")>>,
       aisle |-> <<>>],
      [quantity |-> 1, prices |-> <<PriceAt("X")>>,
       aisle |-> << <<"P", "r", "o", "d", "u", "c", "e">> >>],
      [quantity |-> 1, prices |-> <<PriceAt("X")>>,
       aisle |-> << <<"A", "i", "s", "l", "e", " ", "5">> >>],
      [quantity |-> 2, prices |-> <<PriceAt("X")>>,
       aisle |-> << <<"5">> >>],
      [quantity |-> 1, prices |-> <<PriceAt("Y"), PriceAt("X")>>,
       aisle |-> << <<"0", "5">> >>],
      [quantity |-> 2, prices |-> <<PriceAt("Y")>>,
       aisle |-> << <<>> >>],
      [quantity |-> 0 - 1, prices |-> <<PriceAt("Y")>>,
       aisle |-> << <<"1", "2">> >>],
      [quantity |-> 1, prices |-> <<>>,
       aisle |-> << <<"3">> >>],
      [quantity |-> 1, prices |-> <<PriceAt("Z")>>,
       aisle |-> << <<"B", "1", "0", "0", "0", "-", "2">> >>] }

\* the items of a persisted list carry distinct ids (handleAddToList pushes
\* an item only when no item of the list has its id): the id is the position
WithIds(list) ==
    [i \in DOMAIN list |->
        [id |-> i, quantity |-> list[i].quantity, prices |-> list[i].prices,
         aisle |-> list[i].aisle]]

ShoppingLists == {WithIds(list) : list \in SeqUpTo(ItemPool, MaxItems)}

\* what AsyncStorage.getItem('shoppingList') resolves with: null or a list
StoredData == {<<>>} \cup {<<list>> : list \in ShoppingLists}

\* !aisle: null and the empty string are falsy
NoAisle(aisle) == aisle = <<>> \/ aisle[1] = <<>>

\* aisle.match(/\d+/): the first maximal run of digits, <<>> when none
FirstDigitRun(text) ==
    LET at == {i \in 1..Len(text) : text[i] \in Digits}
    IN  IF at = {} THEN <<>>
        ELSE LET rest == Drop(text, SetMin(at) - 1)
             IN  SubSeq(rest, 1, LeadingDigits(rest))

\* getAisleNumber (line 63-68)
getAisleNumber(aisle) ==
    IF NoAisle(aisle) THEN 999
    ELSE LET match == FirstDigitRun(aisle[1])
         IN  IF match # <<>> THEN DigitsValue(match) ELSE 998

Other == <<"O", "t", "h", "e", "r">>

\* item.aisle || 'Other' (line 73)
aisleOf(item) == IF NoAisle(item.aisle) THEN Other ELSE item.aisle[1]

\* the distinct keys of a list of keys, in order of first occurrence: the
\* order in which a plain object or a Map holds the keys set on it
FirstOccurrences(keys) ==
    LET first == {i \in DOMAIN keys : \A j \in 1..(i - 1) : keys[j] # keys[i]}
        nth[k \in 0..Cardinality(first)] ==
            IF k = 0 THEN 0
            ELSE SetMin({i \in first : i > nth[k - 1]})
    IN  [k \in 1..Cardinality(first) |-> keys[nth[k]]]

\* a property key that is a canonical array index ("0", "7", "12", not "05");
\* the indices end at 2^32 - 2, and every key of up to 9 digits is below that
IsIntegerKey(key) ==
    /\ key # <<>>
    /\ \A i \in DOMAIN key : key[i] \in Digits
    /\ key[1] = "0" => Len(key) = 1
    /\ Len(key) <= 9

\* integer keys in ascending numeric order (canonical keys have distinct
\* values)
AscendingKeys(S) ==
    [k \in 1..Cardinality(S) |->
        CHOOSE x \in S :
            Cardinality({y \in S : DigitsValue(y) < DigitsValue(x)}) = k - 1]

\* Object.keys of a plain object whose keys were inserted in the given order:
\* the integer keys in ascending numeric order, then the others as inserted
ObjectKeys(inserted) ==
    AscendingKeys({inserted[i] : i \in {j \in DOMAIN inserted : IsIntegerKey(inserted[j])}})
        \o SelectSeq(inserted, LAMBDA key : ~IsIntegerKey(key))

\* Array.prototype.sort with a comparator (a, b) => n(a) - n(b), given the
\* numbers n of the elements: the positions of the elements in sorted order.
\* The sort is ascending and stable: an element moves behind the elements
\* that compare lower and behind the equal ones that stood before it
SortedPositions(numbers) ==
    LET Rank(i) == Cardinality({j \in DOMAIN numbers :
                        \/ numbers[j] < numbers[i]
                        \/ numbers[j] = numbers[i] /\ j < i})
    IN  [k \in 1..Len(numbers) |-> CHOOSE i \in DOMAIN numbers : Rank(i) = k - 1]

RECURSIVE Flatten(_)
Flatten(lists) ==
    IF lists = <<>> THEN <<>> ELSE Head(lists) \o Flatten(Tail(lists))

\* variant: one item of each aisle group
aisleGroup_First(items, aisle) ==
    SubSeq(SelectSeq(items, LAMBDA item : aisleOf(item) = aisle), 1, 1)

\* variant: the items of the aisle, last first
aisleGroup_Reversed(items, aisle) ==
    LET group == SelectSeq(items, LAMBDA item : aisleOf(item) = aisle)
    IN  [i \in 1..Len(group) |-> group[Len(group) + 1 - i]]

\* aisleGroups[aisle] (line 72-79): the items of the aisle, in input order
aisleGroup(items, aisle) == SelectSeq(items, LAMBDA item : aisleOf(item) = aisle)

\* optimizeRoute (line 70-88)
optimizeRoute(items) ==
    LET keys == ObjectKeys(FirstOccurrences([i \in DOMAIN items |-> aisleOf(items[i])]))
        at   == SortedPositions([k \in DOMAIN keys |-> getAisleNumber(<<keys[k]>>)])
        sortedAisles == [k \in DOMAIN keys |-> keys[at[k]]]
    IN  Flatten([k \in DOMAIN sortedAisles |-> aisleGroup(items, sortedAisles[k])])

\* item.prices && item.prices.length > 0 (line 94)
hasPrices(item) == Len(item.prices) > 0

\* item.prices[0].store (line 95)
storeOf(item) == item.prices[1].store

\* variant: every item is kept
wanted_Always(item) == TRUE

\* item.quantity > 0 (line 102)
wanted(item) == item.quantity > 0

\* storeMap.get(store) after the forEach (line 93-107)
storeItems(items, store) ==
    SelectSeq(items, LAMBDA item :
        hasPrices(item) /\ storeOf(item) = store /\ wanted(item))

RECURSIVE SumQuantity(_)
\* items.reduce((sum, item) => sum + item.quantity, 0) (line 117)
SumQuantity(items) ==
    IF items = <<>> THEN 0
    ELSE SumQuantity(SubSeq(items, 1, Len(items) - 1)) + items[Len(items)].quantity

\* variant: the number of items
totalItemsOf_Count(items) == Len(items)

totalItemsOf(items) == SumQuantity(items)

\* one StoreRoute (line 113-118)
StoreRoute(store, items) ==
    [store |-> store, items |-> items, optimizedPath |-> optimizeRoute(items),
     totalItems |-> totalItemsOf(items)]

\* variant: the routes are left in the order of the store map
rankRoutes_Unsorted(routes) == routes

\* routes.sort((a, b) => b.totalItems - a.totalItems) (line 123)
rankRoutes(routes) ==
    LET at == SortedPositions([k \in DOMAIN routes |-> 0 - routes[k].totalItems])
    IN  [k \in DOMAIN routes |-> routes[at[k]]]

\* organizeByStore (line 90-125): the value passed to setStoreRoutes
organizeByStore(items) ==
    LET priced  == SelectSeq(items, hasPrices)
        stores  == FirstOccurrences([i \in DOMAIN priced |-> storeOf(priced[i])])
        kept    == SelectSeq(stores, LAMBDA store : Len(storeItems(items, store)) > 0)
    IN  rankRoutes([k \in DOMAIN kept |-> StoreRoute(kept[k], storeItems(items, kept[k]))])

RouteInit ==
    /\ routePc = "idle"
    /\ routeItems = <<>>
    /\ storeRoutes = <<>>

\* useEffect on mount: loadPantryItems() runs up to the await (line 39-45)
LoadPantryItems ==
    /\ routePc = "idle"
    /\ routePc' = "loading"
    /\ UNCHANGED <<routeItems, storeRoutes>>

\* getItem resolves: nothing stored, or the stored list is rehydrated and
\* handed to organizeByStore, which sets storeRoutes (line 46-57)
ShoppingListLoaded ==
    /\ routePc = "loading"
    /\ \E data \in StoredData :
          IF data = <<>>
          THEN UNCHANGED <<routeItems, storeRoutes>>
          ELSE /\ routeItems' = data
               /\ storeRoutes' = organizeByStore(data[1])
    /\ routePc' = "loaded"

\* getItem rejects: the catch logs the error (line 58-60)
ShoppingListFailed ==
    /\ routePc = "loading"
    /\ routePc' = "failed"
    /\ UNCHANGED <<routeItems, storeRoutes>>

-----------------------------------------------------------------------------
(* One inventory look-up, for every text the price node can hold            *)

\* texts of the price node: a price, a price behind white space, a price with
\* a thousands separator, a bare number, a zero price, no text, a word, a
\* lone sign, and a negative amount written with the sign before and after
\* the currency sign
PriceTexts ==
    { <<"$", "4", ".", "9", "9">>,
      <<" ", "$", "5", ".", "4", "9", " ">>,
      <<"$", "1", ",", "2", "9", "9", ".", "0", "0">>,
      <<"4">>,
      <<"$", "0", ".", "0", "0">>,
      <<>>,
      <<"F", "r", "e", "e">>,
      <<"-">>,
      <<"-", "$", "4", ".", "9", "9">>,
      <<"$", "-", "0", ".", "5", "0">> }

PricedPages ==
    { [status |-> page.status, price |-> text, aisle |-> page.aisle] :
        page \in InventoryPages, text \in PriceTexts }

PricedResponses ==
    {Failed(e) : e \in Failures} \cup {Page(p) : p \in PricedPages}

StoreIds == {"101", "202", ""}

LookupInit ==
    /\ adapterCall = <<>>
    /\ adapterResult = <<>>

\* getWalmartInventory(storeId, barcode) from call to return (lines 112-139)
WalmartInventoryLookup ==
    /\ adapterCall = <<>>
    /\ \E storeId \in StoreIds, response \in PricedResponses :
          /\ adapterCall' = << [op |-> "getWalmartInventory",
                                storeId |-> storeId, response |-> response] >>
          /\ adapterResult' = <<getWalmartInventory(storeId, response)>>

\* getTargetInventory(storeId, barcode) from call to return (lines 141-168)
TargetInventoryLookup ==
    /\ adapterCall = <<>>
    /\ \E storeId \in StoreIds, response \in PricedResponses :
          /\ adapterCall' = << [op |-> "getTargetInventory",
                                storeId |-> storeId, response |-> response] >>
          /\ adapterResult' = <<getTargetInventory(storeId, response)>>

-----------------------------------------------------------------------------
(* The BarcodeScanner component, src/unnamed/part_000:62-196                *)
(*                                                                         *)
(* handleBarCodeScanned is created anew by every render and reads the       *)
(* `scanned` and `isLoading` of that render; setScanned / setIsLoading     *)
(* change the state at once and the next render commits it.  When that     *)
(* render is committed relative to further barcode events is up to React's *)
(* scheduler: Render is a step of its own.                                 *)

\* the most accepted scans of one mount of the component
MaxScans == 2

ScanData == {"012345", "999999"}

\* the guard of handleBarCodeScanned (line 95), on the values it closes over
scanBlockedBy(closure) == closure.scanned \/ closure.isLoading

\* onBarcodeScanned={scanned ? undefined : handleBarCodeScanned} (line 195)
handlerMounted(closure) == ~closure.scanned

\* variant: the timer after onScanned resets `scanned` alone
foundTimerLoading_Kept(loading) == loading

\* the timer after onScanned (lines 167-170) calls setIsLoading(false)
foundTimerLoading(loading) == FALSE

Run(data) == [data |-> data, pc |-> "haptics", outcome |-> "pending"]

ScannerInit ==
    /\ scanned = FALSE
    /\ isLoading = FALSE
    /\ rendered = [scanned |-> FALSE, isLoading |-> FALSE]
    /\ scans = <<>>
    /\ onScannedCalls = <<>>
    /\ scanBlocked = FALSE

\* React commits a render with the current state: the handler and the
\* onBarcodeScanned prop of lines 94 and 195 are those of this render
Render ==
    /\ rendered # [scanned |-> scanned, isLoading |-> isLoading]
    /\ rendered' = [scanned |-> scanned, isLoading |-> isLoading]
    /\ UNCHANGED <<scanned, isLoading, scans, onScannedCalls, scanBlocked>>

\* a barcode event reaches the mounted handler, which passes its guard:
\* setScanned(true), setIsLoading(true), and the run goes on to its first
\* await (lines 94-105)
ScanAccepted ==
    /\ handlerMounted(rendered)
    /\ ~scanBlockedBy(rendered)
    /\ Len(scans) < MaxScans
    /\ \E data \in ScanData : scans' = Append(scans, Run(data))
    /\ scanned' = TRUE
    /\ isLoading' = TRUE
    /\ UNCHANGED <<rendered, onScannedCalls, scanBlocked>>

\* a barcode event reaches the mounted handler, which returns at its guard
\* (lines 95-98)
ScanBlocked ==
    /\ handlerMounted(rendered)
    /\ scanBlockedBy(rendered)
    /\ scanBlocked' = TRUE
    /\ UNCHANGED <<scanned, isLoading, rendered, scans, onScannedCalls>>

\* the catch of handleBarCodeScanned (lines 171-177): setIsLoading(false) and
\* the 2000 ms timer is set
Catch(i) ==
    /\ scans' = [scans EXCEPT ![i].pc = "timer", ![i].outcome = "error"]
    /\ isLoading' = FALSE
    /\ UNCHANGED <<scanned, onScannedCalls>>

\* an await of the run settles: it resolves and the run goes on to the next
\* await, or it rejects and the run goes to the catch
Settles(i, next) ==
    \/ /\ scans' = [scans EXCEPT ![i].pc = next]
       /\ UNCHANGED <<scanned, isLoading, onScannedCalls>>
    \/ Catch(i)

\* Haptics.notificationAsync settles (line 105)
HapticsDone(i) ==
    /\ scans[i].pc = "haptics"
    /\ Settles(i, "location")
    /\ UNCHANGED <<rendered, scanBlocked>>

\* Location.getCurrentPositionAsync settles (line 108)
LocationDone(i) ==
    /\ scans[i].pc = "location"
    /\ Settles(i, "geocode")
    /\ UNCHANGED <<rendered, scanBlocked>>

\* the geocoding request settles; reading the postal code of a response
\* without `results` throws (lines 109-121); then getProductInfo is called
GeocodeDone(i) ==
    /\ scans[i].pc = "geocode"
    /\ Settles(i, "getProductInfo")
    /\ UNCHANGED <<rendered, scanBlocked>>

\* getProductInfo resolves with null (lines 126-133): setIsLoading(false) and
\* the 2000 ms timer is set; or with a product (lines 135-170): onScanned is
\* called and the 1500 ms timer is set
ProductInfoDone(i) ==
    /\ scans[i].pc = "getProductInfo"
    /\ \/ /\ scans' = [scans EXCEPT ![i].pc = "timer", ![i].outcome = "notFound"]
          /\ isLoading' = FALSE
          /\ UNCHANGED <<scanned, onScannedCalls>>
       \/ /\ scans' = [scans EXCEPT ![i].pc = "timer", ![i].outcome = "found"]
          /\ onScannedCalls' = Append(onScannedCalls, scans[i].data)
          /\ UNCHANGED <<scanned, isLoading>>
    /\ UNCHANGED <<rendered, scanBlocked>>

\* the timer of the run fires: setScanned(false), and after onScanned also
\* setIsLoading(false) (lines 129-131, 167-170, 174-176)
TimerFired(i) ==
    /\ scans[i].pc = "timer"
    /\ scans' = [scans EXCEPT ![i].pc = "done"]
    /\ scanned' = FALSE
    /\ isLoading' = IF scans[i].outcome = "found"
                    THEN foundTimerLoading(isLoading) ELSE isLoading
    /\ UNCHANGED <<rendered, onScannedCalls, scanBlocked>>

-----------------------------------------------------------------------------
(* The persisted shopping list: handleAddToList of the pantry screen        *)
(* (src/unnamed/part_002:531-562) and the shopping screen                   *)
(* (src/app/(tabs)/shopping.tsx:27-79).                                     *)
(*                                                                         *)
(* An item is a record [id, quantity]; the other fields are copied.        *)
(* AsyncStorage serves the calls in the order in which they are made: a    *)
(* getItem reads, and a setItem writes, when it is called; the code after  *)
(* the await runs in a later step.                                         *)

\* the most runs of handleAddToList
MaxAdds == 2

\* the most presses on the shopping screen's quantity and remove buttons
MaxEdits == 2

\* the ids of the pantry items
PantryIds == {"a", "b"}

\* savedList ? JSON.parse(savedList) : [] (part_002 line 535)
parseList(saved) == IF saved = <<>> THEN <<>> ELSE saved[1]

IndexOf(list, id) ==
    LET at == {i \in DOMAIN list : list[i].id = id}
    IN  IF at = {} THEN 0 ELSE SetMin(at)

\* part_002 lines 540-552: the quantity is raised by 1, or the pantry item is
\* pushed with quantity 1
addItem(list, id) ==
    IF IndexOf(list, id) > 0
    THEN [list EXCEPT ![IndexOf(list, id)].quantity = @ + 1]
    ELSE Append(list, [id |-> id, quantity |-> 1])

\* shopping.tsx line 66
withoutItem(list, id) == SelectSeq(list, LAMBDA item : item.id # id)

\* shopping.tsx lines 71-73
withQuantity(list, id, q) ==
    [i \in DOMAIN list |->
        IF list[i].id = id THEN [list[i] EXCEPT !.quantity = q] ELSE list[i]]

ListInit ==
    /\ storage = <<>>
    /\ adds = <<>>
    /\ shopPc = "unmounted"
    /\ shopLoaded = <<>>
    /\ shoppingList = <<>>
    /\ pendingSets = <<>>
    /\ added = [id \in PantryIds |-> 0]
    /\ edited = {}
    /\ presses = 0

\* handleAddToList(id) is called and reads the list (part_002 lines 531-535)
HandleAddToList ==
    /\ Len(adds) < MaxAdds
    /\ \E id \in PantryIds :
          adds' = Append(adds, [id |-> id, pc |-> "getItem", savedList |-> storage])
    /\ UNCHANGED <<storage, shopPc, shopLoaded, shoppingList, pendingSets,
                   added, edited, presses>>

\* getItem has resolved: the list that was read is changed and written back
\* (part_002 lines 535-557)
AddToListSaved(i) ==
    /\ adds[i].pc = "getItem"
    /\ storage' = <<addItem(parseList(adds[i].savedList), adds[i].id)>>
    /\ adds' = [adds EXCEPT ![i].pc = "done"]
    /\ added' = [added EXCEPT ![adds[i].id] = @ + 1]
    /\ UNCHANGED <<shopPc, shopLoaded, shoppingList, pendingSets, edited,
                   presses>>

\* getItem or setItem rejects: the catch logs the error (part_002 lines
\* 558-560) and nothing is written
AddToListFailed(i) ==
    /\ adds[i].pc = "getItem"
    /\ adds' = [adds EXCEPT ![i].pc = "done"]
    /\ UNCHANGED <<storage, shopPc, shopLoaded, shoppingList, pendingSets,
                   added, edited, presses>>

\* the shopping screen mounts: loadShoppingList reads the list (lines 30-36)
LoadShoppingList ==
    /\ shopPc = "unmounted"
    /\ shopPc' = "loading"
    /\ shopLoaded' = storage
    /\ UNCHANGED <<storage, adds, shoppingList, pendingSets, added, edited,
                   presses>>

\* getItem has resolved: a stored list becomes the state (lines 37-50)
ShoppingListSet ==
    /\ shopPc = "loading"
    /\ shopPc' = "ready"
    /\ shoppingList' = parseList(shopLoaded)
    /\ shopLoaded' = <<>>
    /\ UNCHANGED <<storage, adds, pendingSets, added, edited, presses>>

\* saveShoppingList(newList) up to its await (lines 55-58): the list is
\* written, or setItem rejects and the catch logs the error
saveShoppingList(newList) ==
    \/ /\ storage' = <<newList>>
       /\ pendingSets' = Append(pendingSets, newList)
    \/ UNCHANGED <<storage, pendingSets>>

\* removeFromList(id) (lines 65-68)
removeFromList(id) == saveShoppingList(withoutItem(shoppingList, id))

\* updateQuantity(id, newQuantity) (lines 70-79)
updateQuantity(id, newQuantity) ==
    IF newQuantity <= 0 THEN removeFromList(id)
    ELSE saveShoppingList(withQuantity(shoppingList, id, newQuantity))

\* a press on the minus or the plus button of an item (lines 96 and 103)
QuantityPressed ==
    /\ shopPc = "ready"
    /\ presses < MaxEdits
    /\ presses' = presses + 1
    /\ \E i \in DOMAIN shoppingList, step \in {0 - 1, 1} :
          /\ updateQuantity(shoppingList[i].id, shoppingList[i].quantity + step)
          /\ edited' = edited \cup {shoppingList[i].id}
    /\ UNCHANGED <<adds, shopPc, shopLoaded, shoppingList, added>>

\* a press on the remove button of an item (line 116)
RemovePressed ==
    /\ shopPc = "ready"
    /\ presses < MaxEdits
    /\ presses' = presses + 1
    /\ \E i \in DOMAIN shoppingList :
          /\ removeFromList(shoppingList[i].id)
          /\ edited' = edited \cup {shoppingList[i].id}
    /\ UNCHANGED <<adds, shopPc, shopLoaded, shoppingList, added>>

\* setItem has resolved: setShoppingList(newList) (line 59)
ShoppingListSaved ==
    /\ pendingSets # <<>>
    /\ shoppingList' = Head(pendingSets)
    /\ pendingSets' = Tail(pendingSets)
    /\ UNCHANGED <<storage, adds, shopPc, shopLoaded, added, edited,
                   presses>>

-----------------------------------------------------------------------------
(* Specifications                                                           *)

Init == RetryInit /\ ResolveInit /\ RouteInit /\ LookupInit /\ ScannerInit
            /\ ListInit

\* one call of getProductInfo
Next ==
    \/ GetProductInfo /\ UNCHANGED <<routeVars, lookupVars, scannerVars, listVars>>
    \/ ScrapeWalmartDone /\ UNCHANGED <<routeVars, lookupVars, scannerVars, listVars>>
    \/ ScrapeTargetDone /\ UNCHANGED <<routeVars, lookupVars, scannerVars, listVars>>
    \/ FindWalmartStoresDone /\ UNCHANGED <<routeVars, lookupVars, scannerVars, listVars>>
    \/ FindTargetStoresDone /\ UNCHANGED <<routeVars, lookupVars, scannerVars, listVars>>
    \/ StoresFound /\ UNCHANGED <<routeVars, lookupVars, scannerVars, listVars>>
    \/ PrimaryDone /\ UNCHANGED <<routeVars, lookupVars, scannerVars, listVars>>
    \/ AlternativeDone /\ UNCHANGED <<routeVars, lookupVars, scannerVars, listVars>>

Spec == Init /\ [][Next]_vars

\* one axios.get under the retry interceptor
RetryNext ==
    \/ AxiosGet /\ UNCHANGED <<resolveVars, routeVars, lookupVars, scannerVars, listVars>>
    \/ AttemptSucceeds /\ UNCHANGED <<resolveVars, routeVars, lookupVars, scannerVars, listVars>>
    \/ AttemptRetried /\ UNCHANGED <<resolveVars, routeVars, lookupVars, scannerVars, listVars>>
    \/ AttemptRejected /\ UNCHANGED <<resolveVars, routeVars, lookupVars, scannerVars, listVars>>

RetrySpec == Init /\ [][RetryNext]_vars

\* one mount of the route screen
RouteNext ==
    \/ LoadPantryItems /\ UNCHANGED <<retryVars, resolveVars, lookupVars, scannerVars, listVars>>
    \/ ShoppingListLoaded /\ UNCHANGED <<retryVars, resolveVars, lookupVars, scannerVars, listVars>>
    \/ ShoppingListFailed /\ UNCHANGED <<retryVars, resolveVars, lookupVars, scannerVars, listVars>>

RouteSpec == Init /\ [][RouteNext]_vars

\* one inventory look-up
LookupNext ==
    \/ WalmartInventoryLookup /\ UNCHANGED <<retryVars, resolveVars, routeVars, scannerVars, listVars>>
    \/ TargetInventoryLookup /\ UNCHANGED <<retryVars, resolveVars, routeVars, scannerVars, listVars>>

LookupSpec == Init /\ [][LookupNext]_vars

otherThanScanner == <<retryVars, resolveVars, routeVars, lookupVars, listVars>>

\* one mount of the scanner
ScannerNext ==
    \/ Render /\ UNCHANGED otherThanScanner
    \/ ScanAccepted /\ UNCHANGED otherThanScanner
    \/ ScanBlocked /\ UNCHANGED otherThanScanner
    \/ \E i \in DOMAIN scans : HapticsDone(i) /\ UNCHANGED otherThanScanner
    \/ \E i \in DOMAIN scans : LocationDone(i) /\ UNCHANGED otherThanScanner
    \/ \E i \in DOMAIN scans : GeocodeDone(i) /\ UNCHANGED otherThanScanner
    \/ \E i \in DOMAIN scans : ProductInfoDone(i) /\ UNCHANGED otherThanScanner
    \/ \E i \in DOMAIN scans : TimerFired(i) /\ UNCHANGED otherThanScanner

ScannerSpec == Init /\ [][ScannerNext]_vars

\* what the scheduling provides: a pending render is committed, an awaited
\* call settles and a set timer fires; barcode events may or may not come
ScannerFairness ==
    /\ WF_scannerVars(Render)
    /\ \A i \in 1..MaxScans :
          /\ WF_scannerVars(i \in DOMAIN scans /\ HapticsDone(i))
          /\ WF_scannerVars(i \in DOMAIN scans /\ LocationDone(i))
          /\ WF_scannerVars(i \in DOMAIN scans /\ GeocodeDone(i))
          /\ WF_scannerVars(i \in DOMAIN scans /\ ProductInfoDone(i))
          /\ WF_scannerVars(i \in DOMAIN scans /\ TimerFired(i))

ScannerLiveSpec == ScannerSpec /\ ScannerFairness

otherThanList == <<retryVars, resolveVars, routeVars, lookupVars, scannerVars>>

\* the pantry screen and the shopping screen, both mounted
ListNext ==
    \/ HandleAddToList /\ UNCHANGED otherThanList
    \/ \E i \in DOMAIN adds : AddToListSaved(i) /\ UNCHANGED otherThanList
    \/ \E i \in DOMAIN adds : AddToListFailed(i) /\ UNCHANGED otherThanList
    \/ LoadShoppingList /\ UNCHANGED otherThanList
    \/ ShoppingListSet /\ UNCHANGED otherThanList
    \/ QuantityPressed /\ UNCHANGED otherThanList
    \/ RemovePressed /\ UNCHANGED otherThanList
    \/ ShoppingListSaved /\ UNCHANGED otherThanList

ListSpec == Init /\ [][ListNext]_vars

-----------------------------------------------------------------------------
(* Properties                                                               *)

OpsIssued == {requests[i].op : i \in DOMAIN requests}

InventoryRequests == SelectSeq(requests, LAMBDA q : q.op \in InventoryOps)

Messages == {console[i] : i \in DOMAIN console}

\* the call has returned a ProductInfo (not null)
ReturnedInfo == result # <<>> /\ result[1] # <<>>

\* the candidates in the order the finders gave them: Walmart's, then Target's
Candidates == walmartStores \o targetStores

\* nearest first by the distance the page states, unknown distances last,
\* equal distances in input order
NearerOrSame(a, b) ==
    \/ b.distance.nan
    \/ ~a.distance.nan /\ a.distance.val <= b.distance.val

InsertByDistance(sorted, x) ==
    LET farther == {i \in 1..Len(sorted) : ~NearerOrSame(sorted[i], x)}
        k == IF farther = {} THEN Len(sorted) + 1 ELSE SetMin(farther)
    IN  SubSeq(sorted, 1, k - 1) \o <<x>> \o Drop(sorted, k - 1)

RECURSIVE DistanceSorted(_)
DistanceSorted(stores) ==
    IF stores = <<>> THEN <<>>
    ELSE InsertByDistance(DistanceSorted(SubSeq(stores, 1, Len(stores) - 1)),
                          stores[Len(stores)])

InStockObservation(o) == o # <<>> /\ o[1].inStock

\* the in-stock results among the look-ups of the fallback loop, in order
InStockFallback ==
    LET later == SelectSeq(SubSeq(observations, 2, Len(observations)), InStockObservation)
    IN  [k \in DOMAIN later |-> later[k][1]]

\* C1: when neither scraper produces an identity (the request fails or the
\* product name is empty), getProductInfo returns null, with or without a
\* location, and no store-finder or inventory request is issued.
C1_NoIdentityReturnsNull ==
    /\ \A response \in ProductResponses :
          (~response.ok \/ Trim(response.data.title) = <<>>)
              => /\ scrapeWalmartProduct(barcode, response).value = <<>>
                 /\ scrapeTargetProduct(barcode, response).value = <<>>
    /\ (pc \notin {"idle", "scrapeWalmart", "scrapeTarget"} /\ productInfo = <<>>)
          => /\ pc = "done"
             /\ result = << <<>> >>
             /\ OpsIssued \cap (FinderOps \cup InventoryOps) = {}

C1_Witness ==
    /\ pc = "done"
    /\ hasLocation(zipCode)
    /\ productInfo = <<>>
    /\ result = << <<>> >>
    /\ console = <<"Error scraping Walmart product:">>

\* C2 (as claimed): the primary inventory look-up goes to the candidate with
\* the minimum distance among the candidates of both chains, ties broken by
\* input order (Walmart's results, then Target's).
C2_PrimaryIsNearest ==
    (pc \in {"primary", "alternatives", "done"} /\ allStores # <<>>)
        => /\ InventoryRequests[1].pos = 1
           /\ allStores[1] = DistanceSorted(Candidates)[1]

\* C3: alternativeStores of a returned ProductInfo, when present, has at most
\* 3 elements, each with inStock = true.
C3_AlternativesCapped ==
    ReturnedInfo =>
        LET a == result[1][1].alternativeStores
        IN  a # <<>> => /\ Len(a[1]) <= 3
                        /\ \A i \in DOMAIN a[1] : a[1][i].inStock

C3_Witness ==
    /\ ReturnedInfo
    /\ Len(allStores) = 5
    /\ result[1][1].alternativeStores # <<>>
    /\ Len(result[1][1].alternativeStores[1]) = 3

\* C4 (as claimed): when the primary look-up produced a result, no element of
\* alternativeStores has the storeId of the primary inventory.
C4_AlternativesExcludePrimaryId ==
    (ReturnedInfo /\ inventory # <<>>) =>
        LET info == result[1][1]
        IN  info.alternativeStores # <<>> =>
                \A i \in DOMAIN info.alternativeStores[1] :
                    info.alternativeStores[1][i].storeId # info.inventory.storeId

\* C5 (as claimed): alternativeStores is the sequence of in-stock observations
\* of the candidates at positions 2 to 4 of the distance-sorted candidate
\* list, nearest first; no candidate at position 5 or later is queried; with
\* candidates at 0.5, 1.2 and 3.0 miles, the nearest out of stock and the
\* other two in stock at 4.99 and 5.49, the result has inventory.inStock =
\* false and alternativeStores = [the 4.99 store, the 5.49 store].
C5_AlternativesAreNextNearest ==
    (pc = "done" /\ ReturnedInfo /\ allStores # <<>>
        /\ (inventory = <<>> \/ ~inventory[1].inStock))
    => LET D == DistanceSorted(Candidates)
           n == IF Len(D) < 4 THEN Len(D) ELSE 4
           queried == [k \in 1..(Len(InventoryRequests) - 1) |->
                          allStores[InventoryRequests[k + 1].pos]]
           info == result[1][1]
       IN  /\ queried = SubSeq(D, 2, n)
           /\ alternativeStores = InStockFallback
           /\ info.alternativeStores =
                 (IF InStockFallback = <<>> THEN <<>> ELSE <<InStockFallback>>)
           /\ \A i \in DOMAIN requests : requests[i].pos <= 4
           /\ ( /\ [i \in DOMAIN allStores |-> allStores[i].distance]
                      = <<Num(50), Num(120), Num(300)>>
                /\ Len(observations) = 3
                /\ ~InStockObservation(observations[1])
                /\ InStockObservation(observations[2])
                /\ InStockObservation(observations[3])
                /\ observations[2][1].price = <<499>>
                /\ observations[3][1].price = <<549>> )
              => /\ ~info.inventory.inStock
                 /\ [i \in 1..2 |-> info.alternativeStores[1][i].price]
                       = << <<499>>, <<549>> >>

\* What the code does for C5: the fallback loop queries positions 2 to 4 of
\* allStores as the code sorted it, and alternativeStores is the in-stock
\* results of those look-ups in that order.
FallbackFollowsAllStores ==
    /\ \A i \in DOMAIN requests : requests[i].pos <= 4
    /\ \A k \in DOMAIN InventoryRequests : InventoryRequests[k].pos = k
    /\ pc = "done" /\ ReturnedInfo /\ Len(observations) > 0
          => /\ alternativeStores = InStockFallback
             /\ result[1][1].alternativeStores =
                   (IF InStockFallback = <<>> THEN <<>> ELSE <<InStockFallback>>)

\* C6: alternativeStores is present only when the primary look-up returned
\* null or inStock = false; when the primary look-up returns inStock = true no
\* further inventory look-up is made; when no further look-up is in stock the
\* field is omitted, not set to an empty list.
C6_AlternativesOnlyWhenOutOfStock ==
    /\ (inventory # <<>> /\ inventory[1].inStock)
          => /\ Len(InventoryRequests) = 1
             /\ productInfo[1].alternativeStores = <<>>
    /\ ReturnedInfo =>
          LET a == result[1][1].alternativeStores
          IN  /\ a # <<>> => /\ observations # <<>>
                             /\ inventory = <<>> \/ ~inventory[1].inStock
                             /\ Len(a[1]) > 0
              /\ InStockFallback = <<>> => a = <<>>

C6_Witness ==
    /\ ReturnedInfo
    /\ Len(observations) = 4
    /\ inventory # <<>>
    /\ ~inventory[1].inStock
    /\ InStockFallback = <<>>
    /\ result[1][1].alternativeStores = <<>>

\* C7: once a scraper has yielded an identity, getProductInfo returns a
\* ProductInfo with that name and barcode whatever fails in the store-finder
\* and inventory calls; a failed finder contributes an empty list, a failed
\* inventory look-up contributes null.
C7_IdentitySurvivesFailures ==
    /\ (pc = "done" /\ identity # <<>>)
          => /\ ReturnedInfo
             /\ result[1][1].name = identity[1].name
             /\ result[1][1].barcode = barcode
             /\ identity[1].barcode = barcode
    /\ "Error finding Walmart stores:" \in Messages => walmartStores = <<>>
    /\ "Error finding Target stores:" \in Messages => targetStores = <<>>
    /\ Cardinality({i \in DOMAIN console :
                       console[i] \in {"Error getting Walmart inventory:",
                                       "Error getting Target inventory:"}})
          = Cardinality({i \in DOMAIN observations : observations[i] = <<>>})

C7_Witness ==
    /\ pc = "done"
    /\ ReturnedInfo
    /\ "Error finding Target stores:" \in Messages
    /\ "Error getting Walmart inventory:" \in Messages
    /\ result[1][1].name = <<"W", "i", "d", "g", "e", "t">>

\* C8: without a location getProductInfo returns the identity-only result:
\* the placeholder inventory (storeId "unknown", inStock false), no
\* alternativeStores, and no store-finder or inventory request.
C8_NoLocationIdentityOnly ==
    (zipCode = <<>> \/ zipCode[1] = "")
        => /\ OpsIssued \cap (FinderOps \cup InventoryOps) = {}
           /\ ReturnedInfo
                 => /\ result[1] = identity
                    /\ result[1][1].inventory.storeId = "unknown"
                    /\ ~result[1][1].inventory.inStock
                    /\ result[1][1].alternativeStores = <<>>

C8_Witness ==
    /\ ReturnedInfo
    /\ zipCode = <<"">>
    /\ result[1][1].inventory.chain = "target"

\* the HTTP attempts sent so far: the completed ones and the one in flight
Sent == Len(attempts) + (IF rpc = "inflight" THEN 1 ELSE 0)

\* C9 (as claimed): one retrieval call makes at most 3 HTTP attempts in total.
C9_AtMostThreeAttempts == Sent <= 3

\* C9 (amended): one retrieval call makes at most 4 HTTP attempts in total,
\* the first attempt and up to `retries` = 3 retries, however many attempts
\* fail with retryable errors.
C9_AtMostFourAttempts == Sent <= 4 /\ Sent <= retries + 1

C9_Witness ==
    /\ rpc = "rejected"
    /\ Len(attempts) = 4
    /\ \A i \in DOMAIN attempts :
          attempts[i].kind = "network" \/ attempts[i].status = 429

\* C10 (as claimed): a call whose response is an HTTP error status other than
\* 429 (any other 4xx or 5xx) fails after exactly 1 attempt, with no retry.
C10_HttpErrorNotRetried ==
    \A i \in DOMAIN attempts :
        (attempts[i].kind = "http" /\ attempts[i].status # 429)
            => /\ i = Len(attempts)
               /\ rpc = "rejected"
               /\ (i = 1 => Sent = 1)

\* C10 (amended): a call whose response is a 4xx status other than 429 (e.g.
\* 404) fails at that attempt with no retry, after exactly 1 attempt when it
\* is the first response.
C10_ClientErrorNotRetried ==
    \A i \in DOMAIN attempts :
        (attempts[i].kind = "http" /\ attempts[i].status # 429
            /\ attempts[i].status >= 400 /\ attempts[i].status <= 499)
            => /\ i = Len(attempts)
               /\ rpc = "rejected"
               /\ (i = 1 => Sent = 1)

C10_Witness ==
    /\ rpc = "rejected"
    /\ Len(attempts) = 1
    /\ attempts[1].kind = "http"
    /\ attempts[1].status = 404

\* a completed attempt that ended without any response
NetworkFailure(i) == i \in DOMAIN attempts /\ attempts[i].kind = "network"

\* C11: a retrieval call whose first 2 attempts fail with a network failure
\* and whose third attempt succeeds yields the successful response after
\* exactly 3 attempts: after each of the two failures the request is sent
\* again, and the success of the third attempt resolves the call.
C11_ThirdAttemptSucceeds ==
    /\ (Len(attempts) = 1 /\ NetworkFailure(1))
            => (rpc = "inflight" /\ Sent = 2)
    /\ (Len(attempts) = 2 /\ NetworkFailure(1) /\ NetworkFailure(2))
            => (rpc = "inflight" /\ Sent = 3)
    /\ (Len(attempts) >= 3 /\ NetworkFailure(1) /\ NetworkFailure(2)
            /\ attempts[3].kind = "ok")
            => (rpc = "resolved" /\ Len(attempts) = 3 /\ Sent = 3)

C11_Witness ==
    /\ rpc = "resolved"
    /\ Len(attempts) = 3
    /\ NetworkFailure(1)
    /\ NetworkFailure(2)
    /\ attempts[3].kind = "ok"

\* the list handed to organizeByStore, once a stored list was loaded
Organized == routePc = "loaded" /\ routeItems # <<>>

\* how often x occurs in list
Count(x, list) == Cardinality({i \in DOMAIN list : list[i] = x})

Elements(list) == {list[i] : i \in DOMAIN list}

\* C12: each route's optimizedPath is a permutation of the route's items: the
\* same items, each as often as in `items`, none dropped and none duplicated,
\* whatever the aisle labels are.
C12_PathIsPermutation ==
    \A r \in DOMAIN storeRoutes :
        LET route == storeRoutes[r]
        IN  /\ Len(route.optimizedPath) = Len(route.items)
            /\ \A x \in Elements(route.items) \cup Elements(route.optimizedPath) :
                  Count(x, route.optimizedPath) = Count(x, route.items)

\* a route of three items under a numeric label, a free-text label and no
\* label, whose path is not the input order
C12_Witness ==
    /\ Organized
    /\ \E r \in DOMAIN storeRoutes :
          LET route == storeRoutes[r]
          IN  /\ Len(route.items) = 3
              /\ route.optimizedPath # route.items
              /\ \E i, j, k \in DOMAIN route.items :
                    /\ route.items[i].aisle = <<>>
                    /\ route.items[j].aisle = << <<"7">> >>
                    /\ route.items[k].aisle = << <<"P", "r", "o", "d", "u", "c", "e">> >>

\* the extracted aisle number of an item: the first run of digits of its
\* aisle string, 998 when the string has no digit, 999 when the aisle is
\* absent
ExtractedNumber(item) == getAisleNumber(item.aisle)

\* C13 (as claimed): in every optimizedPath the extracted aisle number of an
\* item is at most that of the item after it, so that items with an absent
\* aisle come after items with an unparseable aisle.
C13_PathAscending ==
    \A r \in DOMAIN storeRoutes :
        LET path == storeRoutes[r].optimizedPath
        IN  \A i \in 1..(Len(path) - 1) :
                ExtractedNumber(path[i]) <= ExtractedNumber(path[i + 1])

\* the order optimizeRoute does produce: ascending in the number of the group
\* key, which is 'Other' for an item without aisle
C13_PathAscendingByGroupKey ==
    \A r \in DOMAIN storeRoutes :
        LET path == storeRoutes[r].optimizedPath
        IN  \A i \in 1..(Len(path) - 1) :
                getAisleNumber(<<aisleOf(path[i])>>)
                    <= getAisleNumber(<<aisleOf(path[i + 1])>>)

\* the position of an item in a list that holds it once
Position(item, list) == CHOOSE i \in DOMAIN list : list[i] = item

\* x stood before y in the input list (the id of an item is its position
\* there) and stands before it in the path
KeepOrder(x, y, path) ==
    x.id < y.id => Position(x, path) < Position(y, path)

\* C14 (as claimed): in every optimizedPath two items with equal extracted
\* aisle numbers appear in the same relative order as in the input list,
\* also when they carry different labels with the same number.
C14_StableAmongEqualNumbers ==
    \A r \in DOMAIN storeRoutes :
        LET path == storeRoutes[r].optimizedPath
        IN  \A x, y \in Elements(path) :
                ExtractedNumber(x) = ExtractedNumber(y) => KeepOrder(x, y, path)

\* C14 (amended): in every optimizedPath two items with the same raw aisle
\* label appear in the same relative order as in the input list.
C14_StableWithinLabel ==
    \A r \in DOMAIN storeRoutes :
        LET path == storeRoutes[r].optimizedPath
        IN  \A x, y \in Elements(path) :
                x.aisle = y.aisle => KeepOrder(x, y, path)

\* two items of one label with an item of another label and the same number
\* between them in the input
C14_Witness ==
    /\ Organized
    /\ \E r \in DOMAIN storeRoutes :
          LET path == storeRoutes[r].optimizedPath
          IN  \E x, y, z \in Elements(path) :
                /\ x.id < z.id /\ z.id < y.id
                /\ x.aisle = y.aisle
                /\ z.aisle # x.aisle
                /\ ExtractedNumber(z) = ExtractedNumber(x)
                /\ Position(x, path) < Position(y, path)

\* where the input list first names a store in a first price observation
FirstSeen(store) ==
    SetMin({i \in DOMAIN routeItems[1] :
                hasPrices(routeItems[1][i]) /\ storeOf(routeItems[1][i]) = store})

\* C15: the routes are in descending order of totalItems, and routes with
\* equal totalItems are in the order in which the input list first names
\* their stores.
C15_RoutesRanked ==
    \A i, j \in DOMAIN storeRoutes :
        i < j =>
            /\ storeRoutes[i].totalItems >= storeRoutes[j].totalItems
            /\ storeRoutes[i].totalItems = storeRoutes[j].totalItems
                  => FirstSeen(storeRoutes[i].store) < FirstSeen(storeRoutes[j].store)

\* three routes: the first overtook the second, which ties with the third
C15_Witness ==
    /\ Organized
    /\ Len(storeRoutes) = 3
    /\ storeRoutes[1].totalItems > storeRoutes[2].totalItems
    /\ storeRoutes[2].totalItems = storeRoutes[3].totalItems
    /\ FirstSeen(storeRoutes[1].store) > FirstSeen(storeRoutes[2].store)

\* an item of the input that goes into the route of the store
Qualifies(item, store) ==
    /\ Len(item.prices) >= 1
    /\ item.prices[1].store = store
    /\ item.quantity > 0

\* the sum of the quantities of the input items that qualify for the store
QualifyingQuantity(store) ==
    LET input == routeItems[1]
        sum[k \in 0..Len(input)] ==
            IF k = 0 THEN 0
            ELSE sum[k - 1]
                    + (IF Qualifies(input[k], store) THEN input[k].quantity ELSE 0)
    IN  sum[Len(input)]

ScenarioItem(id, aisle, quantity) ==
    [id |-> id, quantity |-> quantity, prices |-> <<PriceAt("X")>>,
     aisle |-> <<aisle>>]

\* items [{X, "12", 1}, {X, "3", 0}, {X, "7", 2}]
Scenario ==
    << ScenarioItem(1, <<"1", "2">>, 1),
       ScenarioItem(2, <<"3">>, 0),
       ScenarioItem(3, <<"7">>, 2) >>

\* C16: each route's totalItems is the sum of the quantities of the items of
\* its filtered item set; for the scenario list the one route, for X, leaves
\* out the item of quantity 0, orders the rest as aisle 7 then aisle 12 and
\* has totalItems = 3.
C16_TotalIsSumOfQuantities ==
    /\ \A r \in DOMAIN storeRoutes :
          storeRoutes[r].totalItems = QualifyingQuantity(storeRoutes[r].store)
    /\ (Organized /\ routeItems[1] = Scenario)
          => storeRoutes =
                << [store |-> "X",
                    items |-> <<Scenario[1], Scenario[3]>>,
                    optimizedPath |-> <<Scenario[3], Scenario[1]>>,
                    totalItems |-> 3] >>

C16_Witness ==
    /\ Organized
    /\ routeItems[1] = Scenario
    /\ Len(storeRoutes) = 1
    /\ storeRoutes[1].totalItems = 3

\* the routes whose item list holds the item
RoutesOf(item) ==
    {r \in DOMAIN storeRoutes : Count(item, storeRoutes[r].items) > 0}

\* C17: an input item is in a route if and only if it has a price observation
\* and quantity > 0; it is then in one route only, once, the route of the
\* store of its first price observation; the routes hold input items only,
\* and no route has an empty item list.
C17_RoutesHoldQualifyingItems ==
    /\ ~Organized => storeRoutes = <<>>
    /\ Organized =>
          /\ \A i \in DOMAIN routeItems[1] :
                LET item == routeItems[1][i]
                IN  /\ RoutesOf(item) # {}
                        <=> (Len(item.prices) >= 1 /\ item.quantity > 0)
                    /\ \A r \in RoutesOf(item) :
                          /\ RoutesOf(item) = {r}
                          /\ Count(item, storeRoutes[r].items) = 1
                          /\ storeRoutes[r].store = item.prices[1].store
          /\ \A r \in DOMAIN storeRoutes :
                /\ Len(storeRoutes[r].items) > 0
                /\ Elements(storeRoutes[r].items) \subseteq Elements(routeItems[1])

\* an item without price, an item of quantity <= 0 whose store gets no
\* route, and a route
C17_Witness ==
    /\ Organized
    /\ Len(storeRoutes) >= 1
    /\ \E i, j \in DOMAIN routeItems[1] :
          /\ routeItems[1][i].prices = <<>>
          /\ routeItems[1][j].prices # <<>>
          /\ routeItems[1][j].quantity <= 0
          /\ \A r \in DOMAIN storeRoutes :
                storeRoutes[r].store # routeItems[1][j].prices[1].store

\* the StoreInventory values the look-up returned
Returned ==
    {adapterResult[i].value[1] :
        i \in {j \in DOMAIN adapterResult :
                  ~adapterResult[j].rejected /\ adapterResult[j].value # <<>>}}

\* C18 (as claimed): every StoreInventory that getWalmartInventory or
\* getTargetInventory returns has a price that is absent or non-negative, for
\* every price text of the page.
C18_PriceAbsentOrNonNegative ==
    \A inv \in Returned : inv.price = <<>> \/ inv.price[1] >= 0

\* C19: the identity is tried in a fixed priority order: the Target identity
\* request is issued only after the Walmart identity request has completed
\* without an identity; the first non-null identity is the one returned; the
\* placeholder inventory carries the chain of the adapter that supplied the
\* identity.
C19_IdentityPriority ==
    /\ requests # <<>> => requests[1].op = "scrapeWalmartProduct"
    /\ "scrapeTargetProduct" \in OpsIssued
          => /\ requests[2].op = "scrapeTargetProduct"
             /\ "scrapeWalmartProduct" \notin inFlight
    /\ pc = "scrapeTarget"
          => /\ inFlight = {"scrapeTargetProduct"}
             /\ productInfo = <<>>
             /\ identity = <<>>
    /\ identity # <<>>
          => /\ identity[1].inventory.storeId = "unknown"
             /\ identity[1].inventory.chain =
                   (IF "scrapeTargetProduct" \in OpsIssued
                    THEN "target" ELSE "walmart")
    /\ ReturnedInfo
          => /\ identity # <<>>
             /\ result[1][1].name = identity[1].name
             /\ result[1][1].image = identity[1].image
             /\ result[1][1].brand = identity[1].brand
             /\ result[1][1].barcode = identity[1].barcode
             /\ result[1][1].inventory.storeId = "unknown"
                   => result[1][1].inventory = identity[1].inventory

\* Walmart answered without an identity, Target supplied it, and it is
\* returned with the placeholder inventory of chain 'target'
C19_Witness ==
    /\ ReturnedInfo
    /\ zipCode = <<>>
    /\ Len(requests) = 2
    /\ "Error scraping Walmart product:" \in Messages
    /\ result[1][1].name = <<"W", "i", "d", "g", "e", "t">>
    /\ result[1][1].inventory.storeId = "unknown"
    /\ result[1][1].inventory.chain = "target"

\* the requests, the calls in flight and the merged list agree with the join:
\* the two finder requests are issued together, and while one of them is in
\* flight no inventory look-up was requested and nothing was merged
FindersJoined ==
    /\ \A i \in DOMAIN requests :
          /\ requests[i].op = "findWalmartStores"
                => (i < Len(requests) /\ requests[i + 1].op = "findTargetStores")
          /\ requests[i].op = "findTargetStores"
                => (i > 1 /\ requests[i - 1].op = "findWalmartStores")
    /\ inFlight \cap FinderOps # {}
          => /\ OpsIssued \cap InventoryOps = {}
             /\ allStores = <<>>
    /\ OpsIssued \cap InventoryOps # {}
          => /\ FinderOps \subseteq OpsIssued
             /\ allStores # <<>>
             /\ InventoryRequests[1] = Req(inventoryCall(allStores[1]), 1)

\* the step that sets the merged list sets it to the stable sort of the
\* Walmart list followed by the Target list
MergedFromLists ==
    allStores' # allStores
        => /\ inFlight \cap FinderOps = {}
           /\ allStores' = sortStores(walmartStores \o targetStores)
           /\ walmartStores' = walmartStores
           /\ targetStores' = targetStores

\* C20: both store-finder calls are started before either is awaited, no
\* inventory look-up starts until both have completed, and the merged
\* candidate order, and with it the primary store, is determined by the two
\* lists alone (the Walmart list spread before the Target list, then the
\* stable sort), whichever finder completed first.
C20_FindersJoinBeforeInventory == []FindersJoined /\ [][MergedFromLists]_vars

\* findTargetStores has completed with stores while findWalmartStores is
\* still in flight, and no inventory look-up was started
C20_Witness ==
    /\ pc = "findStores"
    /\ inFlight = {"findWalmartStores"}
    /\ targetStores # <<>>
    /\ walmartStores = <<>>
    /\ InventoryRequests = <<>>

\* the inventory look-ups in flight
InventoryInFlight == inFlight \cap InventoryOps

\* C21: within one getProductInfo call the inventory look-ups are strictly
\* sequential: at most one is in flight, and it is the only call in flight;
\* every earlier look-up has completed before the next is requested (each
\* request but a pending last one has its result), the requests follow the
\* candidate positions 1, 2, 3, 4; and alternativeStores is at every moment
\* the in-stock results of the fallback look-ups in candidate order.
C21_InventorySequential ==
    /\ Cardinality(InventoryInFlight) <= 1
    /\ InventoryInFlight # {} => inFlight = InventoryInFlight
    /\ Len(InventoryRequests)
          = Len(observations) + Cardinality(InventoryInFlight)
    /\ \A k \in DOMAIN InventoryRequests : InventoryRequests[k].pos = k
    /\ InventoryInFlight # {}
          => InventoryInFlight
                = {InventoryRequests[Len(InventoryRequests)].op}
    /\ alternativeStores = InStockFallback

\* four look-ups, one after the other: the primary and the second
\* alternative out of stock or failed, the first and third alternative in
\* stock with different results
C21_Witness ==
    /\ pc = "done"
    /\ Len(InventoryRequests) = 4
    /\ Len(observations) = 4
    /\ ~InStockObservation(observations[1])
    /\ InStockObservation(observations[2])
    /\ ~InStockObservation(observations[3])
    /\ InStockObservation(observations[4])
    /\ Len(alternativeStores) = 2
    /\ alternativeStores[1] # alternativeStores[2]

\* the runs of handleBarCodeScanned that wait for getProductInfo
LookupsInFlight == {i \in DOMAIN scans : scans[i].pc = "getProductInfo"}

\* the runs that have not finished: a previous scan is still being processed
Processing == {i \in DOMAIN scans : scans[i].pc # "done"}

\* C22 (as claimed): in BarcodeScanner at most one getProductInfo call is in
\* flight at a time, and a barcode event that arrives while a previous scan is
\* being processed starts no look-up, under any interleaving of barcode
\* events, re-renders and completions.
C22_OneLookupInFlight == Cardinality(LookupsInFlight) <= 1

\* onScanned is called at most once for each accepted scan
OnScannedOncePerScan ==
    /\ Len(onScannedCalls) <= Len(scans)
    /\ Len(onScannedCalls)
          = Cardinality({i \in DOMAIN scans :
                scans[i].outcome = "found"})

\* what the guard does ensure: a scan accepted by a handler whose render is
\* up to date finds no earlier scan being processed
AcceptedOnFreshRender ==
    [][(Len(scans') > Len(scans)
            /\ rendered = [scanned |-> scanned, isLoading |-> isLoading])
        => Processing = {}]_vars

\* the state in which a new barcode can be scanned: both flags are false, in
\* the state and in the committed render
Ready ==
    /\ ~scanned
    /\ ~isLoading
    /\ rendered = [scanned |-> FALSE, isLoading |-> FALSE]

\* C23: after every accepted scan, whether the product is found, not found or
\* an exception is thrown, the scanner eventually returns to scanned = false
\* and isLoading = false, where a new barcode can be scanned, provided the
\* awaited calls settle and the timers fire.
C23_ScannerRecovers ==
    \A n \in 1..MaxScans : (Len(scans) = n /\ scanned) ~> Ready

\* a scan that ended in the catch, after which the scanner is ready again
C23_Witness ==
    /\ Len(scans) = 1
    /\ scans[1].pc = "done"
    /\ scans[1].outcome = "error"
    /\ Ready

\* the persisted list
Persisted == IF storage = <<>> THEN <<>> ELSE storage[1]

\* C24 (as claimed): under any interleaving of handleAddToList and of the
\* shopping screen's updateQuantity / removeFromList no update is lost: an
\* item that handleAddToList persisted is in the persisted list with its
\* added quantity as long as neither updateQuantity nor removeFromList was
\* invoked for its id.
C24_NoLostUpdate ==
    \A id \in PantryIds :
        (added[id] > 0 /\ id \notin edited)
            => \E i \in DOMAIN Persisted :
                  /\ Persisted[i].id = id
                  /\ Persisted[i].quantity = added[id]

=============================================================================
